---- MODULE Spec2Model ----
(***************************************************************************)
(* FinPal (src/main.py): a Streamlit dashboard that loads a bank-statement *)
(* CSV, categorizes every transaction by exact keyword match against a     *)
(* rule set kept in st.session_state.categories and in categories.json,    *)
(* and learns new keywords from the user's edits ("Apply Changes").        *)
(*                                                                         *)
(* Every user interaction reruns the whole script; one action of the model *)
(* is one interaction together with the script run (and the st.rerun())    *)
(* it triggers.                                                            *)
(*                                                                         *)
(* Text is modelled as a sequence of one-character strings, so that        *)
(* str.strip(), str.lower() and str.replace() are computed, not assumed.   *)
(* A missing CSV cell (pandas NaN) is the one-element sequence <<"NaN">>.  *)
(***************************************************************************)
EXTENDS Integers, Sequences, FiniteSets, TLC

VARIABLES
    categories,   \* st.session_state.categories: insertion-ordered dict
    file,         \* categories.json: [exists, text]
    uploaded,     \* the file_uploader's value: [present, rows]
    df,           \* main's local df, the result of load_transactions: [ok, rows]
    debits_df,    \* st.session_state.debits_df
    credits_df,   \* st.session_state.credits_df
    edits,        \* the "category_editor" widget state: row index -> category
    status,       \* how the last script run ended
    calls         \* SpecKw: the direct add_keyword_to_category calls and results

vars == <<categories, file, uploaded, df, debits_df, credits_df, edits,
          status, calls>>

(***************************************************************************)
(* Bounds of the model.                                                    *)
(***************************************************************************)
MaxRows == 2      \* rows of an uploaded CSV

(***************************************************************************)
(* Text.                                                                   *)
(***************************************************************************)
NaN == <<"NaN">>

IsNaN(s) == s = NaN

IsSpace(c) == c = " "

\* str.lower() on one character
LowerChar(c) == IF c = "A" THEN "a" ELSE IF c = "B" THEN "b" ELSE c

\* str.lower()
Lower(s) == [i \in 1..Len(s) |-> LowerChar(s[i])]

RECURSIVE LStrip(_)
LStrip(s) == IF s # <<>> /\ IsSpace(Head(s)) THEN LStrip(Tail(s)) ELSE s

RECURSIVE RStrip(_)
RStrip(s) ==
    IF s # <<>> /\ IsSpace(s[Len(s)]) THEN RStrip(SubSeq(s, 1, Len(s) - 1)) ELSE s

\* str.strip()
Strip(s) == RStrip(LStrip(s))

\* str(x) of a cell: a missing cell prints as "nan"
Str(x) == IF IsNaN(x) THEN <<"n", "a", "n">> ELSE x

\* str.replace(",", "", regex=False)
RECURSIVE RemoveCommas(_)
RemoveCommas(s) ==
    IF s = <<>> THEN <<>>
    ELSE IF Head(s) = "," THEN RemoveCommas(Tail(s))
    ELSE <<Head(s)>> \o RemoveCommas(Tail(s))

SeqToSet(s) == {s[i] : i \in 1..Len(s)}

(***************************************************************************)
(* The rule set: a Python dict, i.e. a sequence of (name, keywords)        *)
(* entries in insertion order with unique names.                           *)
(***************************************************************************)
Uncategorized == "Uncategorized"

\* line 20: the rule set a fresh session starts with
DefaultCategories == <<[name |-> Uncategorized, keywords |-> <<>>]>>

Keys(cats) == {cats[i].name : i \in 1..Len(cats)}

HasKey(cats, name) == name \in Keys(cats)

IndexOf(cats, name) == CHOOSE i \in 1..Len(cats) : cats[i].name = name

\* cats[name]
Get(cats, name) == cats[IndexOf(cats, name)].keywords

\* cats[name] = kws
DictSet(cats, name, kws) ==
    IF HasKey(cats, name)
    THEN [cats EXCEPT ![IndexOf(cats, name)].keywords = kws]
    ELSE Append(cats, [name |-> name, keywords |-> kws])

(***************************************************************************)
(* categories.json: json.dump writes the entries in order as a flat text   *)
(* of tokens, json.load parses the tokens back.                            *)
(***************************************************************************)
NoFile == [exists |-> FALSE, text |-> <<>>]

KeyTok(name) == [t |-> "key", s |-> name, k |-> <<>>]
StrTok(kw) == [t |-> "str", s |-> "", k |-> kw]

RECURSIVE DumpKeywords(_)
DumpKeywords(kws) ==
    IF kws = <<>> THEN <<>>
    ELSE <<StrTok(Head(kws))>> \o DumpKeywords(Tail(kws))

RECURSIVE JsonDump(_)
JsonDump(cats) ==
    IF cats = <<>> THEN <<>>
    ELSE <<KeyTok(Head(cats).name)>> \o DumpKeywords(Head(cats).keywords)
         \o JsonDump(Tail(cats))

RECURSIVE JsonLoadFrom(_, _)
JsonLoadFrom(text, acc) ==
    IF text = <<>> THEN acc
    ELSE IF Head(text).t = "key"
    THEN JsonLoadFrom(Tail(text),
                      Append(acc, [name |-> Head(text).s, keywords |-> <<>>]))
    ELSE JsonLoadFrom(Tail(text),
                      [acc EXCEPT ![Len(acc)].keywords = Append(@, Head(text).k)])

JsonLoad(text) == JsonLoadFrom(text, <<>>)

\* save_categories()
SaveCategories(cats) == [exists |-> TRUE, text |-> JsonDump(cats)]

\* lines 19-25: the top of every script run
ModuleInit(cats, f) == IF f.exists THEN JsonLoad(f.text) ELSE cats

(***************************************************************************)
(* categorize_transactions.                                                *)
(***************************************************************************)
\* lines 53, 57: .lower().strip()
Normalize(s) == Strip(Lower(s))

\* faulty variant of LoweredKeywords: the keywords compared as stored
KeywordsAsStored(kws) == {kws[i] : i \in 1..Len(kws)}

LoweredKeywords(kws) == {Normalize(kws[i]) : i \in 1..Len(kws)}

\* faulty variant of MatchRows: a row that already has a category keeps it
MatchRowsKeepFirst(rows, cat) ==
    [i \in 1..Len(rows) |->
        IF /\ rows[i].Category = Uncategorized
           /\ Normalize(Str(rows[i].Details)) \in LoweredKeywords(cat.keywords)
        THEN [rows[i] EXCEPT !.Category = cat.name]
        ELSE rows[i]]

\* lines 56-60: one category's pass over the rows
MatchRows(rows, cat) ==
    [i \in 1..Len(rows) |->
        IF Normalize(Str(rows[i].Details)) \in LoweredKeywords(cat.keywords)
        THEN [rows[i] EXCEPT !.Category = cat.name]
        ELSE rows[i]]

RECURSIVE CategorizeFrom(_, _, _)
CategorizeFrom(rows, cats, i) ==
    IF i > Len(cats) THEN rows
    ELSE IF cats[i].name = Uncategorized \/ cats[i].keywords = <<>>
    THEN CategorizeFrom(rows, cats, i + 1)
    ELSE CategorizeFrom(MatchRows(rows, cats[i]), cats, i + 1)

\* faulty variant of categorize_transactions: the default bucket under another spelling
categorize_default_misspelt(rows, cats) ==
    CategorizeFrom([i \in 1..Len(rows) |-> [rows[i] EXCEPT !.Category = "Uncategorised"]],
                   cats, 1)

categorize_transactions(rows, cats) ==
    CategorizeFrom([i \in 1..Len(rows) |-> [rows[i] EXCEPT !.Category = Uncategorized]],
                   cats, 1)

(***************************************************************************)
(* load_transactions.  A CSV row is [Details, Amount, Date, Flow]: Details *)
(* and Amount are texts (or NaN for an empty cell), Date is the text split *)
(* at its blanks, Flow is the "Debit/Credit" column.                       *)
(***************************************************************************)
IsDigit(c) == c \in {"1", "2"}

DigitVal(c) == IF c = "1" THEN 1 ELSE 2

RECURSIVE DigitsVal(_, _)
DigitsVal(s, acc) ==
    IF s = <<>> THEN acc ELSE DigitsVal(Tail(s), 10 * acc + DigitVal(Head(s)))

\* float(s): raises (ok = FALSE) unless s is "nan" or a numeral
ParseFloat(s) ==
    IF s = <<"n", "a", "n">> THEN [ok |-> TRUE, nan |-> TRUE, val |-> 0]
    ELSE IF s # <<>> /\ \A i \in 1..Len(s) : IsDigit(s[i])
    THEN [ok |-> TRUE, nan |-> FALSE, val |-> DigitsVal(s, 0)]
    ELSE [ok |-> FALSE, nan |-> FALSE, val |-> 0]

\* lines 82-85: astype(str).str.replace(",", "").astype(float) on one cell
ParseAmount(cell) == ParseFloat(RemoveCommas(Str(cell)))

NaT == [d |-> 0, m |-> 0, y |-> 0]

DayOf(tok) == CASE tok = "05" -> 5 [] tok = "31" -> 31 [] OTHER -> 0

MonthOf(tok) == CASE tok = "Jan" -> 1 [] tok = "Feb" -> 2 [] OTHER -> 0

YearOf(tok) == CASE tok = "2024" -> 2024 [] tok = "2023" -> 2023 [] OTHER -> 0

IsLeap(y) == (y % 4 = 0 /\ y % 100 # 0) \/ y % 400 = 0

DaysIn(m, y) == IF m = 2 THEN (IF IsLeap(y) THEN 29 ELSE 28) ELSE 31

\* lines 88-90: to_datetime(format="%d %b %Y", errors="coerce") on one cell
ParseDate(cell) ==
    IF Len(cell) # 3 THEN NaT
    ELSE LET d == DayOf(cell[1])
             m == MonthOf(cell[2])
             y == YearOf(cell[3])
         IN  IF d > 0 /\ m > 0 /\ y > 0 /\ d <= DaysIn(m, y)
             THEN [d |-> d, m |-> m, y |-> y]
             ELSE NaT

None == [ok |-> FALSE, rows |-> <<>>]

\* lines 78-91: the typed rows, with the index read_csv gave them
TypedRows(raw) ==
    [i \in 1..Len(raw) |->
        [idx |-> i - 1,
         Details |-> raw[i].Details,
         Amount |-> ParseAmount(raw[i].Amount),
         Date |-> ParseDate(raw[i].Date),
         Flow |-> raw[i].Flow,
         Category |-> ""]]

HasDate(row) == row.Date # NaT

\* line 91: dropna(subset=["Date"])
DropNaDate(rows) == SelectSeq(rows, HasDate)

\* faulty variant of load_transactions: the rows without a date are dropped before
\* the amounts are converted
load_transactions_drop_first(raw, cats) ==
    LET kept == SelectSeq([i \in 1..Len(raw) |->
                              [idx |-> i - 1,
                               Details |-> raw[i].Details,
                               Amount |-> raw[i].Amount,
                               Date |-> ParseDate(raw[i].Date),
                               Flow |-> raw[i].Flow,
                               Category |-> ""]], HasDate)
    IN  IF \E i \in 1..Len(kept) : ~ParseAmount(kept[i].Amount).ok
        THEN None
        ELSE [ok |-> TRUE,
              rows |-> categorize_transactions(
                          [i \in 1..Len(kept) |->
                              [kept[i] EXCEPT !.Amount = ParseAmount(@)]], cats)]

load_transactions(raw, cats) ==
    IF \E i \in 1..Len(raw) : ~ParseAmount(raw[i].Amount).ok
    THEN None
    ELSE [ok |-> TRUE,
          rows |-> categorize_transactions(DropNaDate(TypedRows(raw)), cats)]

(***************************************************************************)
(* add_keyword_to_category: the rule set and file after the call, the      *)
(* value returned, and whether keyword.strip() raised (a NaN keyword is a  *)
(* float, which has no strip).                                             *)
(***************************************************************************)
\* faulty variant of add_keyword_to_category: the membership test looks for the
\* keyword as passed, not as trimmed
add_keyword_untrimmed_test(cats, f, category, keyword) ==
    IF IsNaN(keyword)
    THEN [categories |-> cats, file |-> f, ret |-> FALSE, raised |-> TRUE]
    ELSE LET kw == Strip(keyword)
         IN  IF kw # <<>> /\ keyword \notin SeqToSet(Get(cats, category))
             THEN LET cats2 == DictSet(cats, category, Append(Get(cats, category), kw))
                  IN  [categories |-> cats2, file |-> SaveCategories(cats2),
                       ret |-> TRUE, raised |-> FALSE]
             ELSE [categories |-> cats, file |-> f, ret |-> FALSE, raised |-> FALSE]

\* faulty variant of add_keyword_to_category: the keyword is appended, the file not saved
add_keyword_unsaved(cats, f, category, keyword) ==
    IF IsNaN(keyword)
    THEN [categories |-> cats, file |-> f, ret |-> FALSE, raised |-> TRUE]
    ELSE LET kw == Strip(keyword)
         IN  IF kw # <<>> /\ kw \notin SeqToSet(Get(cats, category))
             THEN [categories |-> DictSet(cats, category,
                                          Append(Get(cats, category), kw)),
                   file |-> f, ret |-> TRUE, raised |-> FALSE]
             ELSE [categories |-> cats, file |-> f, ret |-> FALSE, raised |-> FALSE]

\* faulty variant of add_keyword_to_category: no test for a keyword already present
add_keyword_unchecked(cats, f, category, keyword) ==
    IF IsNaN(keyword)
    THEN [categories |-> cats, file |-> f, ret |-> FALSE, raised |-> TRUE]
    ELSE LET kw == Strip(keyword)
         IN  IF kw # <<>>
             THEN LET cats2 == DictSet(cats, category, Append(Get(cats, category), kw))
                  IN  [categories |-> cats2, file |-> SaveCategories(cats2),
                       ret |-> TRUE, raised |-> FALSE]
             ELSE [categories |-> cats, file |-> f, ret |-> FALSE, raised |-> FALSE]

\* faulty variant of add_keyword_to_category: the keyword is lowercased before it is stored
add_keyword_lowered(cats, f, category, keyword) ==
    IF IsNaN(keyword)
    THEN [categories |-> cats, file |-> f, ret |-> FALSE, raised |-> TRUE]
    ELSE LET kw == Strip(Lower(keyword))
         IN  IF kw # <<>> /\ kw \notin SeqToSet(Get(cats, category))
             THEN LET cats2 == DictSet(cats, category, Append(Get(cats, category), kw))
                  IN  [categories |-> cats2, file |-> SaveCategories(cats2),
                       ret |-> TRUE, raised |-> FALSE]
             ELSE [categories |-> cats, file |-> f, ret |-> FALSE, raised |-> FALSE]

add_keyword_to_category(cats, f, category, keyword) ==
    IF IsNaN(keyword)
    THEN [categories |-> cats, file |-> f, ret |-> FALSE, raised |-> TRUE]
    ELSE LET kw == Strip(keyword)
         IN  IF kw # <<>> /\ kw \notin SeqToSet(Get(cats, category))
             THEN LET cats2 == DictSet(cats, category, Append(Get(cats, category), kw))
                  IN  [categories |-> cats2, file |-> SaveCategories(cats2),
                       ret |-> TRUE, raised |-> FALSE]
             ELSE [categories |-> cats, file |-> f, ret |-> FALSE, raised |-> FALSE]

(***************************************************************************)
(* main.                                                                   *)
(***************************************************************************)
IsDebit(row) == row.Flow = "Debit"
IsCredit(row) == row.Flow = "Credit"

NoEdits == [i \in 0..(MaxRows - 1) |-> ""]

\* lines 194-208: the data editor shows debits_df with the user's edits applied
EditedDf(debits, ed) ==
    [i \in 1..Len(debits) |->
        IF debits[i].idx \in DOMAIN ed /\ ed[debits[i].idx] # ""
        THEN [debits[i] EXCEPT !.Category = ed[debits[i].idx]]
        ELSE debits[i]]

\* lines 213-221: the loop of Apply Changes from row i on; st carries
\* debits_df, the rule set, the file and whether a call raised
RECURSIVE ApplyLoop(_, _, _)
ApplyLoop(edited, i, st) ==
    IF i > Len(edited) \/ st.raised THEN st
    ELSE IF edited[i].Category = st.debits_df[i].Category
    THEN ApplyLoop(edited, i + 1, st)
    ELSE LET r == add_keyword_to_category(st.categories, st.file,
                                          edited[i].Category, edited[i].Details)
         IN  ApplyLoop(edited, i + 1,
                [debits_df |-> [st.debits_df EXCEPT ![i].Category = edited[i].Category],
                 categories |-> r.categories,
                 file |-> r.file,
                 raised |-> r.raised])

\* faulty variant of AddsCategory: no test for a category already present
AddsCategoryUnchecked(cats, add_button, new_category) ==
    add_button /\ new_category # ""

\* lines 184-187: whether the Add Category click adds a category
AddsCategory(cats, add_button, new_category) ==
    add_button /\ new_category # "" /\ ~HasKey(cats, new_category)

\* One script run: the module's top (lines 19-25) and main (lines 117-343),
\* from the session state and the widgets' values to the session state after.
RECURSIVE Run(_, _, _, _, _, _, _, _, _)
Run(cats0, f, up, deb0, cred0, ed, add_button, new_category, save_button) ==
    LET cats == ModuleInit(cats0, f)
        res == load_transactions(up.rows, cats)
        deb == SelectSeq(res.rows, IsDebit)
        cred == SelectSeq(res.rows, IsCredit)
    IN  IF ~up.present
        THEN [categories |-> cats, file |-> f, df |-> None, debits_df |-> deb0,
              credits_df |-> cred0, status |-> "info"]
        ELSE IF ~res.ok
        THEN [categories |-> cats, file |-> f, df |-> None, debits_df |-> deb0,
              credits_df |-> cred0, status |-> "error"]
        ELSE IF AddsCategory(cats, add_button, new_category)
        THEN LET cats2 == DictSet(cats, new_category, <<>>)
             IN  Run(cats2, SaveCategories(cats2), up, deb, cred, ed,
                     FALSE, new_category, FALSE)
        ELSE IF save_button
        THEN LET st == ApplyLoop(EditedDf(deb, ed), 1,
                                 [debits_df |-> deb, categories |-> cats, file |-> f,
                                  raised |-> FALSE])
             IN  [categories |-> st.categories, file |-> st.file, df |-> res,
                  debits_df |-> st.debits_df, credits_df |-> cred,
                  status |-> IF st.raised THEN "crash" ELSE "data"]
        ELSE [categories |-> cats, file |-> f, df |-> res, debits_df |-> deb,
              credits_df |-> cred, status |-> "data"]

(***************************************************************************)
(* The inputs the user can give.                                           *)
(***************************************************************************)
GoodDate == <<"05", "Jan", "2024">>
IsoDate == <<"2024-01-05">>
NoSuchDay == <<"31", "Feb", "2023">>

Row(details, amount, date, flow) ==
    [Details |-> details, Amount |-> amount, Date |-> date, Flow |-> flow]

\* the bank statements the user has at hand
Statements ==
    { << Row(<<" ", "A">>, <<"1", ",", "2">>, GoodDate, "Debit"),
         Row(<<"b">>, <<"1">>, GoodDate, "Debit"),
         Row(<<"b", " ">>, <<"2">>, GoodDate, "Debit") >>,
      << Row(<<" ">>, NaN, GoodDate, "Debit"),
         Row(NaN, <<"2">>, GoodDate, "Debit"),
         Row(<<" ", "A">>, <<"1">>, GoodDate, "Credit") >>,
      << Row(<<"b">>, <<"1">>, GoodDate, "Credit"),
         Row(<<" ", "A">>, <<"2">>, GoodDate, "Debit"),
         Row(<<"b">>, <<"2">>, IsoDate, "Debit") >>,
      << Row(<<"b">>, <<"1">>, GoodDate, "Debit"),
         Row(<<" ", "A">>, <<"x">>, NoSuchDay, "Debit"),
         Row(<<"b">>, <<"2">>, GoodDate, "Credit") >> }

\* the CSV files the user can upload: a statement's first MaxRows rows
Files == {SubSeq(F, 1, MaxRows) : F \in Statements}

\* the names the user can type into "New Category Name"
NamePool == {"Food", "Rent"}

NameInputs == NamePool \cup {"", Uncategorized}

(***************************************************************************)
(* The actions: one user interaction and the script run it triggers.       *)
(***************************************************************************)
\* the widgets below the upload control were drawn by the last run
Displayed == status \in {"data", "crash"}

NoUpload == [present |-> FALSE, rows |-> <<>>]

Commit(r) ==
    /\ categories' = r.categories
    /\ file' = r.file
    /\ df' = r.df
    /\ debits_df' = r.debits_df
    /\ credits_df' = r.credits_df
    /\ status' = r.status

\* the first run of a session whose rule set is cats and whose rule file is f
Start(cats, f) ==
    /\ categories = cats
    /\ file = f
    /\ uploaded = NoUpload
    /\ df = None
    /\ debits_df = <<>>
    /\ credits_df = <<>>
    /\ edits = NoEdits
    /\ status = "info"
    /\ calls = <<>>

\* the first run ever: no rule file yet
Init == Start(DefaultCategories, NoFile)

\* the user uploads a CSV (lines 130-151); the expense table of a new file
\* starts without edits
Upload(f) ==
    /\ uploaded' = [present |-> TRUE, rows |-> f]
    /\ edits' = NoEdits
    /\ \E r \in {Run(categories, file, [present |-> TRUE, rows |-> f], debits_df,
                     credits_df, NoEdits, FALSE, "", FALSE)} : Commit(r)
    /\ UNCHANGED calls

\* the user types a name and clicks "Add Category" (lines 181-189)
AddCategory(name) ==
    /\ Displayed
    /\ UNCHANGED <<uploaded, edits, calls>>
    /\ \E r \in {Run(categories, file, uploaded, debits_df, credits_df, edits,
                     TRUE, name, FALSE)} : Commit(r)

\* the user picks a category in a row of the expense table (lines 194-208);
\* the widget keeps the edits from run to run
EditCategory(idx, cat) ==
    /\ Displayed
    /\ \E i \in 1..Len(debits_df) : debits_df[i].idx = idx
    /\ cat \in Keys(categories)
    /\ edits' = [edits EXCEPT ![idx] = cat]
    /\ \E r \in {Run(categories, file, uploaded, debits_df, credits_df,
                     [edits EXCEPT ![idx] = cat], FALSE, "", FALSE)} : Commit(r)
    /\ UNCHANGED <<uploaded, calls>>

\* the user clicks "Apply Changes" (lines 211-221)
ApplyChanges ==
    /\ Displayed
    /\ UNCHANGED <<uploaded, edits, calls>>
    /\ \E r \in {Run(categories, file, uploaded, debits_df, credits_df, edits,
                     FALSE, "", TRUE)} : Commit(r)

\* the user opens the app in a new session: the session state is gone, the
\* rule file is not (lines 19-25, 136-138)
NewSession ==
    /\ uploaded' = NoUpload
    /\ edits' = NoEdits
    /\ \E r \in {Run(DefaultCategories, file, NoUpload, <<>>, <<>>, NoEdits,
                     FALSE, "", FALSE)} : Commit(r)
    /\ UNCHANGED calls

Next ==
    \/ \E f \in Files : Upload(f)
    \/ \E name \in NameInputs : AddCategory(name)
    \/ \E idx \in 0..(MaxRows - 1), cat \in NameInputs : EditCategory(idx, cat)
    \/ ApplyChanges
    \/ NewSession

Spec == Init /\ [][Next]_vars

(***************************************************************************)
(* SpecCat: categorize_transactions on every rule set a rule file can      *)
(* hold.  The session starts from a categories.json left by an earlier     *)
(* session (or written by hand: keywords need not be trimmed or lowered),  *)
(* and the user uploads one-row statements.                                *)
(***************************************************************************)
KwLists ==
    { <<>>, << <<"A", " ">> >>, << <<"b">> >>,
      << <<"A", " ">>, <<"b">> >>, << <<"b">>, <<"A", " ">> >> }

RuleNames == NamePool \cup {Uncategorized}

RECURSIVE RuleSetsOver(_)
RuleSetsOver(names) ==
    {<<>>} \cup
    UNION { { <<[name |-> n, keywords |-> k]>> \o rest :
                k \in KwLists, rest \in RuleSetsOver(names \ {n}) } : n \in names }

RuleSets == RuleSetsOver(RuleNames) \ {<<>>}

DetailsPool ==
    { <<"a">>, <<" ", "A">>, <<"B", " ">>, <<"a", "b">>, <<" ">>, NaN }

CatFiles == { << Row(d, <<"1">>, GoodDate, "Debit") >> : d \in DetailsPool }

InitCat == \E R \in RuleSets : Start(R, SaveCategories(R))

NextCat == \E f \in CatFiles : Upload(f)

SpecCat == InitCat /\ [][NextCat]_vars

(***************************************************************************)
(* SpecLoad: load_transactions on every statement of up to MaxRows rows    *)
(* over rows with good and bad amounts and dates, one upload after the     *)
(* other.                                                                  *)
(***************************************************************************)
LoadRows ==
    { Row(<<" ", "A">>, <<"1", ",", "2">>, GoodDate, "Debit"),
      Row(<<"b">>, NaN, GoodDate, "Credit"),
      Row(<<"b">>, <<"1">>, IsoDate, "Debit"),
      Row(<<" ", "A">>, <<"x">>, NoSuchDay, "Credit"),
      Row(<<"b">>, <<",">>, GoodDate, "Debit") }

RECURSIVE SeqsUpTo(_, _)
SeqsUpTo(S, n) ==
    IF n = 0 THEN {<<>>}
    ELSE LET shorter == SeqsUpTo(S, n - 1)
         IN  shorter \cup {Append(q, x) : q \in shorter, x \in S}

LoadFiles == SeqsUpTo(LoadRows, MaxRows)

FoodRules ==
    << [name |-> Uncategorized, keywords |-> <<>>],
       [name |-> "Food", keywords |-> << <<"a">> >>] >>

InitLoad == Init \/ Start(FoodRules, SaveCategories(FoodRules))

NextLoad == \E f \in LoadFiles : Upload(f)

SpecLoad == InitLoad /\ [][NextLoad]_vars

(***************************************************************************)
(* SpecKw: add_keyword_to_category called twice in a row with the same     *)
(* category and keyword, on every rule set of RuleSets.                    *)
(***************************************************************************)
KwArgs == { <<"a">>, <<"A", " ">>, <<" ", "b">>, <<" ">>, <<>> }

Call(category, keyword) ==
    \E r \in {add_keyword_to_category(categories, file, category, keyword)} :
        /\ categories' = r.categories
        /\ file' = r.file
        /\ calls' = Append(calls, [category |-> category, keyword |-> keyword,
                                   ret |-> r.ret,
                                   before |-> categories, file_before |-> file,
                                   after |-> r.categories, file_after |-> r.file])
        /\ UNCHANGED <<uploaded, df, debits_df, credits_df, edits, status>>

FirstCall ==
    /\ calls = <<>>
    /\ \E c \in Keys(categories), k \in KwArgs : Call(c, k)

SecondCall ==
    /\ Len(calls) = 1
    /\ Call(calls[1].category, calls[1].keyword)

NextKw == FirstCall \/ SecondCall

SpecKw == InitCat /\ [][NextKw]_vars

(***************************************************************************)
(* What the claims speak of.                                               *)
(***************************************************************************)
\* the lowercased, trimmed text of a details cell
NormDetails(d) == Strip(Lower(Str(d)))

\* the positions of the categories other than "Uncategorized" that hold a
\* keyword whose lowercased, trimmed form is the normalized details d
Matching(cats, d) ==
    { i \in 1..Len(cats) :
        /\ cats[i].name # Uncategorized
        /\ \E j \in 1..Len(cats[i].keywords) :
              Strip(Lower(cats[i].keywords[j])) = NormDetails(d) }

Earliest(S) == CHOOSE i \in S : \A j \in S : i <= j
Latest(S) == CHOOSE i \in S : \A j \in S : i >= j

\* C1 as stated: a transaction whose details match two or more categories
\* gets the category that is earliest in the rule set's insertion order.
C1_EarliestMatchWins ==
    df.ok =>
        \A n \in 1..Len(df.rows) :
            LET M == Matching(categories, df.rows[n].Details)
            IN  Cardinality(M) >= 2 =>
                    df.rows[n].Category = categories[Earliest(M)].name

\* C1 as amended: a transaction whose details match two or more categories
\* gets the category that is latest in the rule set's insertion order (a
\* later matching category overrides an earlier match).
C1_LatestMatchWins ==
    df.ok =>
        \A n \in 1..Len(df.rows) :
            LET M == Matching(categories, df.rows[n].Details)
            IN  Cardinality(M) >= 2 =>
                    df.rows[n].Category = categories[Latest(M)].name

\* C1's case: a loaded transaction whose details match two categories
C1_Witness ==
    /\ df.ok
    /\ \E n \in 1..Len(df.rows) :
          Cardinality(Matching(categories, df.rows[n].Details)) >= 2

\* C2: a transaction whose details match exactly one category other than
\* "Uncategorized" gets that category, and one that matches none gets
\* "Uncategorized", whatever keywords "Uncategorized" itself holds.
C2_UniqueMatchOrUncategorized ==
    df.ok =>
        \A n \in 1..Len(df.rows) :
            LET M == Matching(categories, df.rows[n].Details)
            IN  /\ Cardinality(M) = 1 =>
                      df.rows[n].Category = categories[Earliest(M)].name
                /\ M = {} => df.rows[n].Category = Uncategorized

\* C2's cases: a transaction with exactly one match while "Uncategorized"
\* holds a keyword for the same details
C2_Witness ==
    /\ df.ok
    /\ \E n \in 1..Len(df.rows) :
          /\ Cardinality(Matching(categories, df.rows[n].Details)) = 1
          /\ \E i \in 1..Len(categories) :
                /\ categories[i].name = Uncategorized
                /\ \E j \in 1..Len(categories[i].keywords) :
                      Strip(Lower(categories[i].keywords[j]))
                          = NormDetails(df.rows[n].Details)

\* the Debit rows of a load's result, as main stores them (line 146)
Debits(d) == SelectSeq(d.rows, IsDebit)

\* the category the expense table shows for a row: the user's edit, if any
EditedCategory(row) ==
    IF edits[row.idx] # "" THEN edits[row.idx] ELSE row.Category

\* row i of the expense table was changed by the user
Changed(rows, i) == EditedCategory(rows[i]) # rows[i].Category

Moved(i) ==
    /\ df.ok
    /\ Len(debits_df) = Len(Debits(df))
    /\ debits_df[i].Category # Debits(df)[i].Category

\* C4 as stated, for the next load: once Apply has moved a transaction with
\* a non-empty details text to a category C other than "Uncategorized", the
\* next load assigns C to every transaction with the same details.
C4_TaughtCategoryAssignedOnNextLoad ==
    [][(status = "data" /\ df'.ok) =>
        \A i \in 1..Len(debits_df) :
            (/\ Moved(i)
             /\ debits_df[i].Category # Uncategorized
             /\ ~IsNaN(debits_df[i].Details)
             /\ Strip(debits_df[i].Details) # <<>>)
            => \A n \in 1..Len(df'.rows) :
                   df'.rows[n].Details = debits_df[i].Details
                       => df'.rows[n].Category = debits_df[i].Category]_vars

\* the number of times x occurs in the sequence q
Count(q, x) == Cardinality({i \in 1..Len(q) : q[i] = x})

\* C5: add_keyword_to_category called twice in a row with the same category
\* and keyword leaves one occurrence of the trimmed keyword in the category's
\* list; the second call returns False and changes neither the rule set nor
\* the file; a keyword that is empty after trimming returns False and
\* changes nothing.
C5_AddKeywordIdempotent ==
    /\ \A n \in 1..Len(calls) :
          Strip(calls[n].keyword) = <<>> =>
              /\ ~calls[n].ret
              /\ calls[n].after = calls[n].before
              /\ calls[n].file_after = calls[n].file_before
    /\ Len(calls) = 2 =>
          /\ ~calls[2].ret
          /\ calls[2].after = calls[1].after
          /\ calls[2].file_after = calls[1].file_after
          /\ Strip(calls[2].keyword) # <<>> =>
                Count(Get(categories, calls[2].category), Strip(calls[2].keyword)) = 1

\* C5's case: the first call added an untrimmed keyword, the second was made
C5_Witness ==
    /\ Len(calls) = 2
    /\ calls[1].ret
    /\ calls[1].keyword # Strip(calls[1].keyword)

\* C6: after every mutation of the rule set the rule file holds the rule set
\* in memory, so the reload at the top of the next run yields the same
\* mapping; a rule set without a file is the default one.
C6_FileEqualsRuleSet ==
    /\ file.exists => JsonLoad(file.text) = categories
    /\ ~file.exists => categories = <<[name |-> "Uncategorized", keywords |-> <<>>]>>

\* C6's case: a category and a keyword have been added and saved
C6_Witness ==
    /\ file.exists
    /\ Len(categories) >= 2
    /\ \E i \in 1..Len(categories) : categories[i].keywords # <<>>

\* float() accepts the cell's text once its commas are removed; an empty
\* cell reads as "nan", which float() accepts
AmountConverts(cell) ==
    \/ IsNaN(cell)
    \/ LET digits == SelectSeq(cell, LAMBDA c : c # ",")
       IN  digits # <<>> /\ \A i \in 1..Len(digits) : digits[i] \in {"1", "2"}

SomeAmountFails(raw) == \E i \in 1..Len(raw) : ~AmountConverts(raw[i].Amount)

\* the Date cell is a day, a month abbreviation and a year
DateParses(cell) == cell = <<"05", "Jan", "2024">>

\* the category categorization gives a details cell: the latest match's
ExpectedCategory(cats, d) ==
    IF Matching(cats, d) = {} THEN Uncategorized
    ELSE cats[Latest(Matching(cats, d))].name

\* C7: the load fails, with no transactions, exactly when some row's Amount
\* does not convert after its commas are removed, whatever that row's Date;
\* main then shows no data and leaves the rule set and the stored Debit and
\* Credit sets as they were.  Otherwise the load returns exactly the rows
\* whose Date parses, in order, each with its category.
C7_LoadFailurePolicy ==
    [][uploaded'.present =>
        LET raw == uploaded'.rows
            dated == {i \in 1..Len(raw) : DateParses(raw[i].Date)}
        IN  IF SomeAmountFails(raw)
            THEN /\ status' = "error"
                 /\ ~df'.ok /\ df'.rows = <<>>
                 /\ UNCHANGED <<categories, file, debits_df, credits_df>>
            ELSE /\ status' = "data"
                 /\ df'.ok
                 /\ Len(df'.rows) = Cardinality(dated)
                 /\ \A n \in 1..Len(df'.rows) :
                       LET row == df'.rows[n]
                       IN  /\ row.idx + 1 \in dated
                           /\ row.Details = raw[row.idx + 1].Details
                           /\ row.Flow = raw[row.idx + 1].Flow
                           /\ row.Category = ExpectedCategory(categories', row.Details)
                           /\ n > 1 => df'.rows[n - 1].idx < row.idx
                 /\ debits_df' = SelectSeq(df'.rows, LAMBDA r : r.Flow = "Debit")
                 /\ credits_df' = SelectSeq(df'.rows, LAMBDA r : r.Flow = "Credit")]_vars

\* C7's case: a file whose bad-amount row also has a bad date was rejected
\* while the sets of an earlier upload stayed stored
C7_Witness ==
    /\ status = "error"
    /\ debits_df # <<>>
    /\ credits_df # <<>>
    /\ \E i \in 1..Len(uploaded.rows) :
          /\ ~AmountConverts(uploaded.rows[i].Amount)
          /\ ~DateParses(uploaded.rows[i].Date)

\* C8: the rule set always has the key "Uncategorized", and the category of
\* every stored transaction is a key of the rule set.
C8_CategoriesResolve ==
    /\ "Uncategorized" \in Keys(categories)
    /\ \A i \in 1..Len(debits_df) : debits_df[i].Category \in Keys(categories)
    /\ \A i \in 1..Len(credits_df) : credits_df[i].Category \in Keys(categories)

\* C8's case: stored Debit and Credit transactions, one of them in a category
\* the user added
C8_Witness ==
    /\ credits_df # <<>>
    /\ \E i \in 1..Len(debits_df) : debits_df[i].Category \in NamePool

\* C9: no category's keyword list holds the same keyword twice, and no two
\* entries of the rule set have the same name; no step empties or shortens
\* the keyword list of a category that is already present.
C9_NoDuplicates ==
    /\ [](/\ \A i \in 1..Len(categories) :
               \A j, k \in 1..Len(categories[i].keywords) :
                   categories[i].keywords[j] = categories[i].keywords[k] => j = k
          /\ \A i, j \in 1..Len(categories) :
               categories[i].name = categories[j].name => i = j)
    /\ [][\A i \in 1..Len(categories) :
            \E j \in 1..Len(categories') :
               /\ categories'[j].name = categories[i].name
               /\ Len(categories'[j].keywords) >= Len(categories[i].keywords)]_vars

\* C9's case: both user categories exist and one category holds two keywords
C9_Witness ==
    /\ Len(categories) = 3
    /\ \E i \in 1..Len(categories) : Len(categories[i].keywords) = 2

\* q is p with elements inserted: p's elements in p's order
RECURSIVE IsSubsequence(_, _)
IsSubsequence(p, q) ==
    IF p = <<>> THEN TRUE
    ELSE IF q = <<>> THEN FALSE
    ELSE IF Head(p) = Head(q) THEN IsSubsequence(Tail(p), Tail(q))
    ELSE IsSubsequence(p, Tail(q))

\* C10: in every step, every category present before is present after, and
\* every keyword of its list is still in the list, in the same relative order.
C10_RuleSetOnlyGrows ==
    [][\A i \in 1..Len(categories) :
          /\ categories[i].name \in Keys(categories')
          /\ IsSubsequence(categories[i].keywords,
                           Get(categories', categories[i].name))]_vars

\* C10's case: a new session has reloaded, from the rule file, a rule set
\* with a category the user added and a list of two keywords
C10_Witness ==
    /\ status = "info"
    /\ file.exists
    /\ \E i \in 1..Len(categories) :
          categories[i].name \in NamePool /\ Len(categories[i].keywords) = 2

====
